---- MODULE Spec2Model ----
(***************************************************************************)
(* A model of the sigil-rs identicon generator (src/src/lib.rs): Theme,    *)
(* Cells, should_fill, generate_cells, md5, Sigil::from_hash,              *)
(* Sigil::generate, Sigil::invert and Sigil::to_image.                     *)
(*                                                                         *)
(* A behaviour is one use of the library as in examples/basic.rs and       *)
(* server/src/main.rs: a Theme is built, one Sigil is constructed from it  *)
(* (generate or from_hash), the Sigil is inverted any number of times and  *)
(* then rendered by to_image.  A Rust panic ends the behaviour.            *)
(***************************************************************************)
EXTENDS Integers, Sequences, FiniteSets, TLC

VARIABLES
    theme,      \* the Theme handed to generate / from_hash
    pc,         \* "ready", a line of from_hash, "rendered" or "panicked"
    op,         \* the public function called last ("none" before any call)
    input,      \* generate's input argument
    hash,       \* the 16-byte digest (from_hash's argument)
    md5_calls,  \* number of times md5() ran
    foreground, \* from_hash's local `foreground`
    sigil,      \* the Sigil value the caller holds
    size,       \* to_image's size argument
    image,      \* the RgbImage to_image returned
    panic,      \* which panic ended the behaviour
    access      \* indices handed to should_fill, Cells::set and Cells::get

vars == <<theme, pc, op, input, hash, md5_calls, foreground, sigil, size,
          image, panic, access>>

----------------------------------------------------------------------------
(* Bounds of the model. *)

\* theme.rows (a u16) is drawn from 0 .. MaxRows
MaxRows == 16
\* to_image's size (a u32) is drawn from 0 .. MaxSize
MaxSize == 32

----------------------------------------------------------------------------
(* Values that stand for "absent". *)

NoSigil == [none |-> "sigil"]
NoImage == [none |-> "image"]
NoHash == <<>>
NoInput == [none |-> "input"]
NoColour == <<>>
NoSize == [none |-> "size"]
NoAccess == [reads |-> {}, sets |-> {}, gets |-> {}]

----------------------------------------------------------------------------
(* Machine arithmetic. *)

RECURSIVE Pow2(_)
Pow2(k) == IF k = 0 THEN 1 ELSE 2 * Pow2(k - 1)

\* v >> k on an unsigned value
Shr(v, k) == v \div Pow2(k)

\* 1 << k
Shl1(k) == Pow2(k)

\* byte & mask, mask having exactly one bit set
AndMask(byte, mask) == IF (byte \div mask) % 2 = 1 THEN mask ELSE 0

\* byte | mask, mask having exactly one bit set
OrMask(byte, mask) == IF (byte \div mask) % 2 = 1 THEN byte ELSE byte + mask

\* a - b on u32 underflows when a < b: the debug build panics at the
\* subtraction; the release build wraps to a value of at least 2^32 - b,
\* which as a cell coordinate fails the bounds check of bits[index / 8].
\* Either build panics, so an underflow is modelled as a panic.
SubUnderflows(a, b) == a < b

----------------------------------------------------------------------------
(* Theme. *)

DEFAULT_FOREGROUND ==
    << <<45, 79, 255>>, <<254, 180, 44>>, <<226, 121, 234>>, <<30, 179, 253>>,
       <<232, 77, 65>>, <<49, 203, 115>>, <<141, 69, 170>> >>

DefaultBackground == <<224, 224, 224>>

DefaultRows == 5

ThemeDefault ==
    [rows |-> DefaultRows, foreground |-> DEFAULT_FOREGROUND,
     background |-> DefaultBackground]

\* The palettes the caller configures: none, three colours, the default seven.
Palettes ==
    { <<>>,
      << <<10, 20, 30>>, <<200, 100, 0>>, <<0, 0, 0>> >>,
      DEFAULT_FOREGROUND }

Themes ==
    { [rows |-> r, foreground |-> p, background |-> DefaultBackground] :
        r \in 0 .. MaxRows, p \in Palettes }

\* Theme::pick_foreground: the remainder panics when the palette is empty.
PickPanics(t) == Len(t.foreground) = 0

pick_foreground(t, v) == t.foreground[(v % Len(t.foreground)) + 1]

----------------------------------------------------------------------------
(* Cells: a bit set of 32 bytes, bits[k] kept at position k + 1. *)

CellsBytes == 32

CellsNew == [k \in 1 .. CellsBytes |-> 0]

CellsCapacity(cells) == Len(cells) * 8

\* Cells::get; the caller checks CellsInRange where the index may be large
CellsGet(cells, index) ==
    LET byte == cells[(index \div 8) + 1]
        mask == Shl1(index % 8)
    IN  AndMask(byte, mask) # 0

CellsInRange(cells, index) == (index \div 8) + 1 <= Len(cells)

CellsSet(cells, index) ==
    [cells EXCEPT ![(index \div 8) + 1] = OrMask(@, Shl1(index % 8))]

\* DisplayCells: one string of 'X' / '-' per row
DisplayCells(cells, n) ==
    [y \in 1 .. n |->
        [x \in 1 .. n |->
            IF CellsGet(cells, (y - 1) * n + (x - 1)) THEN "X" ELSE "-"]]

----------------------------------------------------------------------------
(* should_fill and generate_cells.  `source` is the slice hash[1..], kept  *)
(* as a sequence whose element k + 1 is source[k].                         *)

SourceInRange(index, source) == (index \div 8) + 1 <= Len(source)

\* A faulty variant of should_fill: the bits of a byte are taken least significant
\* first.
should_fill_lsb_first(index, source) ==
    Shr(source[(index \div 8) + 1], index % 8) % 2 = 1

should_fill(index, source) ==
    Shr(source[(index \div 8) + 1], 8 - ((index % 8) + 1)) % 2 = 1

\* A faulty variant of Cols: every column is driven by the bit stream.
ColsAll(n) == n

\* let cols = (size / 2) + (size % 2);
Cols(n) == (n \div 2) + (n % 2)

\* A faulty variant of generate_cells_step: the mirrored cell is not set.
generate_cells_step_no_mirror(i, n, source, acc) ==
    IF acc.oob THEN acc
    ELSE IF ~SourceInRange(i, source)
         THEN [acc EXCEPT !.reads = @ \cup {i}, !.oob = TRUE]
    ELSE IF ~(Shr(source[(i \div 8) + 1], 8 - ((i % 8) + 1)) % 2 = 1)
         THEN [acc EXCEPT !.reads = @ \cup {i}]
    ELSE LET a == (i % n) * n + (i \div n)
         IN  IF ~CellsInRange(acc.cells, a)
             THEN [acc EXCEPT !.reads = @ \cup {i}, !.sets = @ \cup {a},
                              !.oob = TRUE]
             ELSE [acc EXCEPT !.reads = @ \cup {i}, !.sets = @ \cup {a},
                              !.cells = CellsSet(@, a)]

\* One iteration of the loop of generate_cells, for index i.  acc carries
\* the cells built so far, the indices handed to should_fill and to
\* Cells::set, and whether an index ran out of bounds: that panics, and no
\* later iteration runs.
generate_cells_step(i, n, source, acc) ==
    IF acc.oob THEN acc
    ELSE IF ~SourceInRange(i, source)
         THEN [acc EXCEPT !.reads = @ \cup {i}, !.oob = TRUE]
    ELSE IF ~should_fill(i, source)
         THEN [acc EXCEPT !.reads = @ \cup {i}]
    ELSE LET x == i \div n
             y == i % n
             a == y * n + x
             b == y * n + n - 1 - x
         IN  IF ~CellsInRange(acc.cells, a) \/ ~CellsInRange(acc.cells, b)
             THEN [acc EXCEPT !.reads = @ \cup {i}, !.sets = @ \cup {a, b},
                              !.oob = TRUE]
             ELSE [acc EXCEPT !.reads = @ \cup {i},
                              !.sets = @ \cup {a, b},
                              !.cells = CellsSet(CellsSet(@, a), b)]

\* The iterations lo .. hi - 1 in increasing order (the range is halved to
\* keep the evaluation shallow; the order of the iterations is the loop's).
\* Once an index ran out of bounds no later iteration runs.
RECURSIVE generate_cells_loop(_, _, _, _, _)
generate_cells_loop(lo, hi, n, source, acc) ==
    IF lo >= hi THEN acc
    ELSE IF hi = lo + 1 THEN generate_cells_step(lo, n, source, acc)
    ELSE LET mid == (lo + hi) \div 2
             left == generate_cells_loop(lo, mid, n, source, acc)
         IN  IF left.oob THEN left
             ELSE generate_cells_loop(mid, hi, n, source, left)

generate_cells(n, source) ==
    generate_cells_loop(0, Cols(n) * n, n, source,
        [cells |-> CellsNew, reads |-> {}, sets |-> {}, oob |-> FALSE])

----------------------------------------------------------------------------
(* md5: the digests of the inputs the model hashes. *)

Inputs == {"test", "56fbc0305cea0414184cb72b", "example", "", "username"}

md5(in) ==
    CASE in = "test" ->
           <<9, 143, 107, 205, 70, 33, 211, 115, 202, 222, 78, 131, 38, 39, 180, 246>>
      [] in = "56fbc0305cea0414184cb72b" ->
           <<3, 159, 213, 65, 76, 28, 139, 61, 94, 233, 36, 17, 217, 78, 244, 176>>
      [] in = "example" ->
           <<26, 121, 164, 214, 13, 230, 113, 142, 142, 91, 50, 110, 51, 138, 229, 51>>
      [] in = "" ->
           <<212, 29, 140, 217, 143, 0, 178, 4, 233, 128, 9, 152, 236, 248, 66, 126>>
      [] in = "username" ->
           <<20, 196, 176, 107, 130, 78, 197, 147, 35, 147, 98, 81, 127, 83, 139, 41>>

----------------------------------------------------------------------------
(* The digests handed to from_hash. *)

SelectorBytes == {0, 1, 7, 255}

PatternBytes == {0, 255, 170, 85, 128, 1}

BitProbes == {0, 7, 8, 59, 60, 119}

\* 15 grid bytes, all equal to b
AllBytes(b) == [k \in 1 .. 15 |-> b]

\* 15 grid bytes with only bit p of the stream set (MSB first)
OneBit(p) == [k \in 1 .. 15 |-> IF k = (p \div 8) + 1 THEN Pow2(7 - (p % 8)) ELSE 0]

GridSources == {AllBytes(b) : b \in PatternBytes} \cup {OneBit(p) : p \in BitProbes}

Digests == {<<s>> \o g : s \in SelectorBytes, g \in GridSources}

----------------------------------------------------------------------------
(* Sigil. *)

\* A faulty variant of invert: the foreground is overwritten and not swapped.
invert_overwrite(s) == [s EXCEPT !.foreground = s.background]

\* Sigil::invert
invert(s) == [s EXCEPT !.foreground = s.background, !.background = s.foreground]

\* let cell_size = size / (rows + 1); let padding = cell_size / 2;
CellSize(rows, sz) == sz \div (rows + 1)

Padding(rows, sz) == CellSize(rows, sz) \div 2

\* A faulty variant of InBorder: the test against the right edge is left out.
InBorderNoRightEdge(sz, padding, x, y) ==
    x < padding \/ y < padding \/ y >= sz - padding

\* The border test of the closure of to_image
InBorder(sz, padding, x, y) ==
    x < padding \/ x >= sz - padding \/ y < padding \/ y >= sz - padding

\* A faulty variant of CellIndex: the coordinates are swapped.
CellIndexTransposed(rows, cell_size, padding, x, y) ==
    ((x - padding) \div cell_size) * rows + ((y - padding) \div cell_size)

\* let x = (x - padding) / cell_size; let y = (y - padding) / cell_size;
\* let cell_index = y * rows + x;
CellIndex(rows, cell_size, padding, x, y) ==
    ((y - padding) \div cell_size) * rows + ((x - padding) \div cell_size)

\* The closure of to_image at pixel (x, y), the size assertion having passed.
\* get is the index handed to Cells::get (-1 where none is).
to_image_pixel(s, sz, x, y) ==
    LET rows == s.rows
        cell_size == CellSize(rows, sz)
        padding == Padding(rows, sz)
    IN  IF SubUnderflows(sz, padding)
        THEN [colour |-> NoColour, get |-> -1, panics |-> TRUE]
        ELSE IF InBorder(sz, padding, x, y)
        THEN [colour |-> s.background, get |-> -1, panics |-> FALSE]
        ELSE IF SubUnderflows(x, padding) \/ SubUnderflows(y, padding)
        THEN [colour |-> NoColour, get |-> -1, panics |-> TRUE]
        ELSE LET cell_index == CellIndex(rows, cell_size, padding, x, y)
             IN  IF ~CellsInRange(s.cells, cell_index)
                 THEN [colour |-> NoColour, get |-> cell_index, panics |-> TRUE]
                 ELSE [colour |-> IF CellsGet(s.cells, cell_index)
                                  THEN s.foreground ELSE s.background,
                       get |-> cell_index, panics |-> FALSE]

\* A faulty variant of SizeAccepted: the factor 2 is forgotten.
SizeAcceptedNoFactor(s, sz) == sz % (s.rows + 1) = 0

\* The assertion of to_image
SizeAccepted(s, sz) == sz % ((s.rows + 1) * 2) = 0

\* RgbImage::from_fn(size, size, closure)
to_image_raster(s, sz) ==
    [p \in (0 .. sz - 1) \X (0 .. sz - 1) |-> to_image_pixel(s, sz, p[1], p[2])]

----------------------------------------------------------------------------
(* The state machine. *)

Init ==
    /\ theme \in Themes
    /\ pc = "ready"
    /\ op = "none"
    /\ input = NoInput
    /\ hash = NoHash
    /\ md5_calls = 0
    /\ foreground = NoColour
    /\ sigil = NoSigil
    /\ size = NoSize
    /\ image = NoImage
    /\ panic = "none"
    /\ access = NoAccess

\* Sigil::generate: hashes the input, then enters from_hash
Generate(in) ==
    /\ pc = "ready"
    /\ sigil = NoSigil
    /\ op' = "generate"
    /\ input' = in
    /\ hash' = md5(in)
    /\ md5_calls' = md5_calls + 1
    /\ pc' = "from_hash_238"
    /\ UNCHANGED <<theme, foreground, sigil, size, image, panic, access>>

\* Sigil::from_hash called by the user with a precomputed digest
FromHash(digest) ==
    /\ pc = "ready"
    /\ sigil = NoSigil
    /\ op' = "from_hash"
    /\ hash' = digest
    /\ pc' = "from_hash_238"
    /\ UNCHANGED <<theme, input, md5_calls, foreground, sigil, size, image,
                   panic, access>>

\* A faulty variant of FromHashAssert: the upper assertion is off by one
\* (theme.rows <= 16).
FromHashAssertOffByOne ==
    /\ pc = "from_hash_238"
    /\ IF ~(theme.rows > 0)
       THEN pc' = "panicked" /\ panic' = "assert_rows_gt_0"
       ELSE IF ~(theme.rows <= 16)
       THEN pc' = "panicked" /\ panic' = "assert_rows_lt_16"
       ELSE pc' = "from_hash_241" /\ panic' = panic
    /\ UNCHANGED <<theme, op, input, hash, md5_calls, foreground, sigil, size,
                   image, access>>

\* A faulty variant of FromHashAssert: the lower assertion is missing.
FromHashAssertNoLower ==
    /\ pc = "from_hash_238"
    /\ IF ~(theme.rows < 16)
       THEN pc' = "panicked" /\ panic' = "assert_rows_lt_16"
       ELSE pc' = "from_hash_241" /\ panic' = panic
    /\ UNCHANGED <<theme, op, input, hash, md5_calls, foreground, sigil, size,
                   image, access>>

\* assert!(theme.rows > 0); assert!(theme.rows < 16);
FromHashAssert ==
    /\ pc = "from_hash_238"
    /\ IF ~(theme.rows > 0)
       THEN pc' = "panicked" /\ panic' = "assert_rows_gt_0"
       ELSE IF ~(theme.rows < 16)
       THEN pc' = "panicked" /\ panic' = "assert_rows_lt_16"
       ELSE pc' = "from_hash_241" /\ panic' = panic
    /\ UNCHANGED <<theme, op, input, hash, md5_calls, foreground, sigil, size,
                   image, access>>

\* A faulty variant of FromHashPick: the selector is the last byte of the digest.
FromHashPickLastByte ==
    /\ pc = "from_hash_241"
    /\ IF PickPanics(theme)
       THEN pc' = "panicked" /\ panic' = "rem_by_zero"
            /\ foreground' = foreground
       ELSE pc' = "from_hash_243" /\ panic' = panic
            /\ foreground' = pick_foreground(theme, hash[16])
    /\ UNCHANGED <<theme, op, input, hash, md5_calls, sigil, size, image,
                   access>>

\* let foreground = theme.pick_foreground(hash[0]);
FromHashPick ==
    /\ pc = "from_hash_241"
    /\ IF PickPanics(theme)
       THEN pc' = "panicked" /\ panic' = "rem_by_zero"
            /\ foreground' = foreground
       ELSE pc' = "from_hash_243" /\ panic' = panic
            /\ foreground' = pick_foreground(theme, hash[1])
    /\ UNCHANGED <<theme, op, input, hash, md5_calls, sigil, size, image,
                   access>>

\* let background = ..; let cells = generate_cells(..); Self { .. }
FromHashCells ==
    /\ pc = "from_hash_243"
    /\ LET r == generate_cells(theme.rows, Tail(hash))
       IN  /\ access' = [access EXCEPT !.reads = r.reads, !.sets = r.sets]
           /\ IF r.oob
              THEN pc' = "panicked" /\ panic' = "index_out_of_bounds"
                   /\ sigil' = sigil
              ELSE pc' = "ready" /\ panic' = panic
                   /\ sigil' = [foreground |-> foreground,
                                background |-> theme.background,
                                rows |-> theme.rows,
                                cells |-> r.cells]
    /\ UNCHANGED <<theme, op, input, hash, md5_calls, foreground, size, image>>

\* Sigil::invert
Invert ==
    /\ pc = "ready"
    /\ sigil # NoSigil
    /\ op' = "invert"
    /\ sigil' = invert(sigil)
    /\ UNCHANGED <<theme, pc, input, hash, md5_calls, foreground, size, image,
                   panic, access>>

\* Sigil::to_image
ToImage(sz) ==
    /\ pc = "ready"
    /\ sigil # NoSigil
    /\ op' = "to_image"
    /\ size' = sz
    /\ IF ~SizeAccepted(sigil, sz)
       THEN pc' = "panicked" /\ panic' = "assert_eq_size"
            /\ image' = NoImage /\ access' = [access EXCEPT !.gets = {}]
       ELSE LET raster == to_image_raster(sigil, sz)
                pixels == DOMAIN raster
            IN  /\ access' = [access EXCEPT !.gets =
                       {raster[p].get : p \in {q \in pixels : raster[q].get # -1}}]
                /\ IF \E p \in pixels : raster[p].panics
                   THEN pc' = "panicked" /\ panic' = "to_image_closure"
                        /\ image' = NoImage
                   ELSE pc' = "rendered" /\ panic' = panic
                        /\ image' = [width |-> sz, height |-> sz,
                                     pixels |-> [p \in pixels |-> raster[p].colour]]
    /\ UNCHANGED <<theme, input, hash, md5_calls, foreground, sigil>>

Next ==
    \/ \E in \in Inputs : Generate(in)
    \/ \E digest \in Digests : FromHash(digest)
    \/ FromHashAssert
    \/ FromHashPick
    \/ FromHashCells
    \/ Invert
    \/ \E sz \in 0 .. MaxSize : ToImage(sz)

Spec == Init /\ [][Next]_vars

----------------------------------------------------------------------------
(* Properties. *)

\* rows within [1, 15] and a non-empty palette
ThemeValid(t) == t.rows >= 1 /\ t.rows <= 15 /\ Len(t.foreground) > 0

\* The panics that report a configuration error
ConfigPanics == {"assert_rows_gt_0", "assert_rows_lt_16", "rem_by_zero"}

\* generate or from_hash has just returned or panicked
ConstructionEnded ==
    op \in {"generate", "from_hash"} /\ pc \in {"ready", "panicked"}

\* generate or from_hash has just returned a Sigil
Constructed == op \in {"generate", "from_hash"} /\ pc = "ready"

\* Bit i of the grid source, most significant bit first
StreamBit(source, i) == (source[(i \div 8) + 1] \div Pow2(7 - (i % 8))) % 2

Min(a, b) == IF a <= b THEN a ELSE b

\* The cell indices the column-major, mirrored rule fills
RuleFilled(rows, source) ==
    {k \in 0 .. rows * rows - 1 :
        StreamBit(source, Min(k % rows, rows - 1 - (k % rows)) * rows
                          + (k \div rows)) = 1}

\* The cell indices of the bit set that are filled
FilledCells(cells) == {k \in 0 .. CellsCapacity(cells) - 1 : CellsGet(cells, k)}

Row(str) == [k \in 1 .. Len(str) |-> IF str[k] = 1 THEN "X" ELSE "-"]

\* C1: after construction, cell (x, y) of the grid is filled iff bit
\* min(x, rows-1-x) * rows + y of the 15 grid bytes (MSB first) is 1, every
\* cell index from rows*rows on is unfilled, and the grids of the tests
\* same_as_cupcake and even_rows are the ones the tests expect.
C1_CellRule ==
    Constructed =>
        LET rows == sigil.rows
            source == SubSeq(hash, 2, 16)
        IN  /\ \A x \in 0 .. rows - 1 : \A y \in 0 .. rows - 1 :
                  CellsGet(sigil.cells, y * rows + x)
                      <=> StreamBit(source, Min(x, rows - 1 - x) * rows + y) = 1
            /\ \A k \in rows * rows .. CellsCapacity(sigil.cells) - 1 :
                  ~CellsGet(sigil.cells, k)
            /\ (op = "generate" /\ input = "test" /\ rows = 5) =>
                  DisplayCells(sigil.cells, rows) =
                      << Row(<<1, 1, 1, 1, 1>>), Row(<<0, 1, 0, 1, 0>>),
                         Row(<<0, 1, 1, 1, 0>>), Row(<<0, 0, 0, 0, 0>>),
                         Row(<<1, 1, 1, 1, 1>>) >>
            /\ (op = "generate" /\ input = "56fbc0305cea0414184cb72b" /\ rows = 5)
                  =>
                  DisplayCells(sigil.cells, rows) =
                      << Row(<<1, 1, 0, 1, 1>>), Row(<<0, 1, 1, 1, 0>>),
                         Row(<<0, 1, 0, 1, 0>>), Row(<<1, 1, 1, 1, 1>>),
                         Row(<<1, 1, 0, 1, 1>>) >>
            /\ (op = "generate" /\ input = "test" /\ rows = 6) =>
                  DisplayCells(sigil.cells, rows) =
                      << Row(<<1, 1, 1, 1, 1, 1>>), Row(<<0, 1, 0, 0, 1, 0>>),
                         Row(<<0, 0, 1, 1, 0, 0>>), Row(<<0, 1, 1, 1, 1, 0>>),
                         Row(<<1, 1, 1, 1, 1, 1>>), Row(<<1, 0, 1, 1, 0, 1>>) >>

C1_Witness ==
    /\ Constructed
    /\ op = "generate" /\ input = "test" /\ sigil.rows = 6
    /\ CellsGet(sigil.cells, 7) /\ ~CellsGet(sigil.cells, 8)

\* C2: in the grid of a constructed Sigil, whenever cell (x, y) is filled
\* the mirrored cell (rows-1-x, y) is filled.
C2_MirrorSymmetry ==
    Constructed =>
        \A x \in 0 .. sigil.rows - 1 : \A y \in 0 .. sigil.rows - 1 :
            CellsGet(sigil.cells, y * sigil.rows + x)
                => CellsGet(sigil.cells, y * sigil.rows + (sigil.rows - 1 - x))

C2_Witness ==
    /\ Constructed
    /\ op = "from_hash" /\ sigil.rows = 4
    /\ CellsGet(sigil.cells, 0) /\ CellsGet(sigil.cells, 3)
    /\ ~CellsGet(sigil.cells, 1) /\ ~CellsGet(sigil.cells, 2)

\* C3: every pixel of the image of to_image(size) is background in the
\* border of width padding, and elsewhere foreground or background as the
\* cell ((py - padding) / cell_size) * rows + (px - padding) / cell_size is
\* filled or not.
C3_Rasterization ==
    pc = "rendered" =>
        LET rows == sigil.rows
            cell_size == size \div (rows + 1)
            padding == cell_size \div 2
            filled == FilledCells(sigil.cells)
        IN  \A px \in 0 .. size - 1 : \A py \in 0 .. size - 1 :
                image.pixels[<<px, py>>] =
                    IF px < padding \/ px >= size - padding
                       \/ py < padding \/ py >= size - padding
                    THEN sigil.background
                    ELSE IF ((py - padding) \div cell_size) * rows
                              + ((px - padding) \div cell_size)
                            \in filled
                         THEN sigil.foreground
                         ELSE sigil.background

C3_Witness ==
    /\ pc = "rendered"
    /\ theme = ThemeDefault
    /\ sigil.rows = 5 /\ size = 24
    /\ sigil.foreground # sigil.background
    /\ image.pixels[<<0, 0>>] = sigil.background
    /\ image.pixels[<<2, 2>>] = sigil.foreground
    /\ image.pixels[<<6, 2>>] = sigil.background

\* C4: generate and from_hash end in a configuration panic, and leave no
\* Sigil, exactly when theme.rows is outside [1, 15] or the palette is
\* empty; otherwise they return a Sigil whose rows is theme.rows.
C4_ConfigurationErrors ==
    /\ ConstructionEnded =>
          IF ThemeValid(theme)
          THEN pc = "ready" /\ panic = "none" /\ sigil # NoSigil
               /\ sigil.rows = theme.rows
          ELSE pc = "panicked" /\ panic \in ConfigPanics /\ sigil = NoSigil
    /\ ~ThemeValid(theme) => sigil = NoSigil
    /\ panic \in ConfigPanics => ~ThemeValid(theme)

C4_Witness ==
    /\ ConstructionEnded
    /\ op = "generate" /\ theme.rows = 16 /\ Len(theme.foreground) > 0
    /\ panic = "assert_rows_lt_16"

\* C5: to_image(size) panics with the size assertion exactly when size is
\* not a multiple of (rows + 1) * 2, and otherwise returns an image of
\* exactly size x size pixels.
C5_GeometryErrors ==
    op = "to_image" =>
        IF size % ((sigil.rows + 1) * 2) # 0
        THEN pc = "panicked" /\ panic = "assert_eq_size" /\ image = NoImage
        ELSE /\ pc = "rendered" /\ panic = "none"
             /\ image.width = size /\ image.height = size
             /\ DOMAIN image.pixels = (0 .. size - 1) \X (0 .. size - 1)

C5_Witness ==
    /\ op = "to_image" /\ sigil.rows = 5 /\ size = 25
    /\ panic = "assert_eq_size"

\* C6 as stated: a call whose theme is invalid never runs the hasher, and
\* from_hash selects no colour and builds no cells before the validation.
C6_RejectFast ==
    /\ ~ThemeValid(theme) => md5_calls = 0
    /\ foreground # NoColour => theme.rows >= 1 /\ theme.rows <= 15
    /\ access.reads # {} => ThemeValid(theme)

\* C6 amended: generate hashes its input first, also when the theme is
\* invalid, and the configuration panic is raised afterwards by from_hash;
\* from_hash checks rows before it selects a colour, finds an empty palette
\* while selecting the colour, and builds cells only for a valid theme.
C6_ValidationOrder ==
    /\ op = "generate" => md5_calls = 1
    /\ op = "from_hash" => md5_calls = 0
    /\ foreground # NoColour => ThemeValid(theme)
    /\ pc = "from_hash_241" => theme.rows >= 1 /\ theme.rows <= 15
    /\ (pc = "from_hash_243" \/ access # NoAccess \/ sigil # NoSigil)
          => ThemeValid(theme)

C6_Witness ==
    /\ op = "generate" /\ md5_calls = 1
    /\ panic = "assert_rows_gt_0" /\ theme.rows = 0
    /\ foreground = NoColour /\ access = NoAccess

\* C7: cell construction hands should_fill only bit indices below 120
\* (byte indices below 15) and hands Cells::set only indices below
\* rows * rows, which is at most 225 and below the capacity 256; no index
\* runs out of bounds.
C7_NoOverRead ==
    /\ \A i \in access.reads : i < 120 /\ i \div 8 < 15
    /\ \A k \in access.sets :
          /\ k < theme.rows * theme.rows
          /\ theme.rows * theme.rows <= 225
          /\ k < CellsCapacity(CellsNew)
    /\ panic # "index_out_of_bounds"
    /\ Constructed => access.reads = 0 .. Cols(theme.rows) * theme.rows - 1

C7_Witness ==
    /\ Constructed
    /\ theme.rows = 15
    /\ access.reads = 0 .. 119
    /\ 224 \in access.sets

\* C8: a call of invert swaps foreground and background, leaves rows and
\* cells as they were, and inverting its result gives back the Sigil it
\* was called on.
C8_InvertInvolution ==
    [][op' = "invert" =>
          /\ sigil'.foreground = sigil.background
          /\ sigil'.background = sigil.foreground
          /\ sigil'.rows = sigil.rows
          /\ sigil'.cells = sigil.cells
          /\ invert(sigil') = sigil]_vars

C8_Witness ==
    /\ op = "invert"
    /\ sigil.foreground = theme.background
    /\ sigil.background = pick_foreground(theme, hash[1])
    /\ sigil.foreground # sigil.background
    /\ FilledCells(sigil.cells) # {}

\* C9: the foreground of a constructed Sigil is theme.foreground at index
\* digest[0] mod L, its background is theme.background, and its grid is the
\* one the bit rule gives for digest bytes 1..15 alone.
C9_ColourSelection ==
    Constructed =>
        /\ sigil.foreground =
              theme.foreground[(hash[1] % Len(theme.foreground)) + 1]
        /\ sigil.background = theme.background
        /\ FilledCells(sigil.cells) = RuleFilled(sigil.rows, SubSeq(hash, 2, 16))

C9_Witness ==
    /\ Constructed
    /\ op = "from_hash" /\ hash[1] = 255 /\ hash[16] = 0
    /\ Len(theme.foreground) = 7
    /\ sigil.foreground = <<30, 179, 253>>

\* C10: for a size that is a positive multiple of (rows + 1) * 2, cell_size
\* is even, the border is padding wide on every side, the area inside it
\* is rows * cell_size wide, every pixel inside it maps to cell coordinates
\* below rows, and to_image hands Cells::get only indices of the grid,
\* without underflow or panic.
C10_LookupsInRange ==
    (op = "to_image" /\ size > 0 /\ size % ((sigil.rows + 1) * 2) = 0) =>
        LET rows == sigil.rows
            cell_size == size \div (rows + 1)
            padding == cell_size \div 2
            inner == {p \in 0 .. size - 1 : p >= padding /\ p < size - padding}
        IN  /\ pc = "rendered"
            /\ cell_size % 2 = 0
            /\ 2 * padding = cell_size
            /\ padding <= size
            /\ Cardinality(inner) = rows * cell_size
            /\ \A p \in inner : (p - padding) \div cell_size \in 0 .. rows - 1
            /\ access.gets \subseteq 0 .. rows * rows - 1
            /\ access.gets =
                  {((py - padding) \div cell_size) * rows
                      + ((px - padding) \div cell_size) : px \in inner, py \in inner}

C10_Witness ==
    /\ pc = "rendered"
    /\ sigil.rows = 15 /\ size = 32
    /\ access.gets = 0 .. 224

====
